---------------------------- MODULE Spec2Model ----------------------------
(***************************************************************************)
(* Model of plugins/modules/zos_mount.py: the persistent mount-table       *)
(* editor swap_text, the block builder inside run_module and the control   *)
(* flow of run_module.  Python strings are sequences of one-character      *)
(* strings, lists of lines are sequences of such sequences, and list       *)
(* indices are kept 0-based as in the source (element i is seq[i + 1]).    *)
(***************************************************************************)
EXTENDS Integers, Sequences, FiniteSets, TLC

\* ---------------------------------------------------------------------
\* Python string primitives used by the module
\* ---------------------------------------------------------------------
Lower == <<"a","b","c","d","e","f","g","h","i","j","k","l","m","n","o","p","q","r","s","t","u","v","w","x","y","z">>
Upper == <<"A","B","C","D","E","F","G","H","I","J","K","L","M","N","O","P","Q","R","S","T","U","V","W","X","Y","Z">>

\* remove_starting_at_index = None / remove_ending_at_index = None
None == 0 - 1

py_min(a, b) == IF a < b THEN a ELSE b

\* python whitespace as seen by str.strip() and by \s of the re module
py_isspace(c) == c \in {" ", "\t", "\n"}

py_upper_char(c) ==
  IF \E k \in 1..26 : Lower[k] = c
  THEN Upper[CHOOSE k \in 1..26 : Lower[k] = c]
  ELSE c

\* str.upper()
py_upper(s) == [k \in 1..Len(s) |-> py_upper_char(s[k])]

\* s[a:b] for 0 <= a, 0 <= b (python clamps both ends to len(s))
py_slice(s, a, b) ==
  LET lo == py_min(a, Len(s))
      hi == py_min(b, Len(s))
  IN  IF hi <= lo THEN <<>> ELSE SubSeq(s, lo + 1, hi)

\* s[a:]
py_slice_from(s, a) == py_slice(s, a, Len(s))

\* del lst[a:b]
py_del_slice(lst, a, b) ==
  LET lo == py_min(a, Len(lst))
      hi == py_min(b, Len(lst))
  IN  IF hi <= lo THEN lst
      ELSE py_slice(lst, 0, lo) \o py_slice_from(lst, hi)

\* str.strip(): the text between the first and the last non-whitespace character
py_strip(s) ==
  LET keep == {i \in 1..Len(s) : ~py_isspace(s[i])}
  IN  IF keep = {} THEN <<>>
      ELSE SubSeq(s, CHOOSE i \in keep : \A j \in keep : i <= j,
                     CHOOSE i \in keep : \A j \in keep : j <= i)

\* does s carry the literal lit at 1-based position i
py_startswith_at(s, i, lit) ==
  /\ i >= 1
  /\ i + Len(lit) - 1 <= Len(s)
  /\ SubSeq(s, i, i + Len(lit) - 1) = lit

\* sub in s
py_in(sub, s) == \E i \in 1..(Len(s) + 1) : py_startswith_at(s, i, sub)

\* s.split("\n"): the pieces between successive newlines, always at least one
py_split(s) ==
  LET nl == {i \in 1..Len(s) : s[i] = "\n"}
      n == Cardinality(nl)
      pos(k) == CHOOSE i \in nl : Cardinality({j \in nl : j < i}) = k - 1
  IN  [k \in 1..(n + 1) |->
         SubSeq(s, IF k = 1 THEN 1 ELSE pos(k - 1) + 1,
                   IF k = n + 1 THEN Len(s) ELSE pos(k) - 1)]

\* s.splitlines(): no piece for an empty string or after a final newline
py_splitlines(s) ==
  LET pieces == py_split(s)
  IN  IF Len(pieces[Len(pieces)]) = 0
      THEN SubSeq(pieces, 1, Len(pieces) - 1)
      ELSE pieces

\* "\n".join(lst)
RECURSIVE py_join(_)
py_join(lst) ==
  IF Len(lst) = 0 THEN <<>>
  ELSE IF Len(lst) = 1 THEN lst[1]
  ELSE lst[1] \o <<"\n">> \o py_join(Tail(lst))

\* s.replace(old, new) for a non-empty old: leftmost occurrences first
RECURSIVE py_replace(_, _, _)
py_replace(s, old, new) ==
  LET hits == {i \in 1..Len(s) : py_startswith_at(s, i, old)}
  IN  IF hits = {} THEN s
      ELSE LET h == CHOOSE i \in hits : \A j \in hits : i <= j
           IN  SubSeq(s, 1, h - 1) \o new
                 \o py_replace(py_slice_from(s, h - 1 + Len(old)), old, new)

Digits == <<"0","1","2","3","4","5","6","7","8","9">>

\* "{0}".format(n) for a natural number n
RECURSIVE py_str(_)
py_str(n) ==
  IF n < 10 THEN <<Digits[n + 1]>>
  ELSE py_str(n \div 10) \o <<Digits[(n % 10) + 1]>>

\* ---------------------------------------------------------------------
\* swap_text: the persistent-block editor
\* ---------------------------------------------------------------------

\* position of the first non-whitespace character at or after i (\s*)
RECURSIVE re_skip_space(_, _)
re_skip_space(line, i) ==
  IF i <= Len(line) /\ py_isspace(line[i]) THEN re_skip_space(line, i + 1) ELSE i

\* the identifier is pasted unescaped into the pattern: "." is the regex
\* wildcard, every other character of the alphabet stands for itself
re_match_chars(pat, line, i) ==
  /\ i + Len(pat) - 1 <= Len(line)
  /\ \A k \in 1..Len(pat) :
        IF pat[k] = "." THEN line[i + k - 1] # "\n" ELSE line[i + k - 1] = pat[k]

\* ms = re.compile(...) with removing.upper() pasted between the quotes
\* ms.match(line) is not None
ms_match(removing, line) ==
  LET pat == py_upper(removing)
      a == re_skip_space(line, 1)
      b == a + 5
      c == re_skip_space(line, b)
      d == re_skip_space(line, c + 11)
      e == d + 1
      f == e + Len(pat)
      g == re_skip_space(line, f + 1)
  IN  /\ py_startswith_at(line, a, <<"M","O","U","N","T">>)
      /\ c > b
      /\ py_startswith_at(line, c, <<"F","I","L","E","S","Y","S","T","E","M","(">>)
      /\ py_startswith_at(line, d, <<"'">>)
      /\ re_match_chars(pat, line, e)
      /\ py_startswith_at(line, f, <<"'">>)
      /\ py_startswith_at(line, g, <<")">>)

\* boneyard[key] = value on an insertion-ordered dict kept as a sequence
\* of <<key, value>> pairs
dict_set(boneyard, key, value) ==
  IF \E k \in 1..Len(boneyard) : boneyard[k][1] = key
  THEN [k \in 1..Len(boneyard) |->
          IF boneyard[k][1] = key THEN <<key, value>> ELSE boneyard[k]]
  ELSE Append(boneyard, <<key, value>>)

\* for tmpindex in range(index - 1, 0, -1): ... the value left in
\* remove_starting_at_index
RECURSIVE backward_walk(_, _, _)
backward_walk(content_lines, tmpindex, index) ==
  IF tmpindex < 1 THEN index
  ELSE LET tmpline == content_lines[tmpindex + 1]
       IN  IF Len(tmpline) > 0
           THEN IF py_slice(tmpline, 0, 2) # <<"/","*">> \/ py_slice(tmpline, 0, 6) = <<"/","*"," ","B","E","G">>
                THEN tmpindex
                ELSE backward_walk(content_lines, tmpindex - 1, index)
           ELSE tmpindex

\* doit: the line closes the open span
doit(line) ==
  IF Len(line) > 0
  THEN \/ (line[1] # " " /\ line[1] # "\t" /\ py_slice(line, 0, 2) # <<"/","*">>)
       \/ py_slice(line, 0, 6) = <<"/","*"," ","E","N","D">>
  ELSE TRUE

\* for index, line in enumerate(content_lines): ...
RECURSIVE scan(_, _, _, _, _, _)
scan(content_lines, removing, index, start, end, boneyard) ==
  IF index >= Len(content_lines)
  THEN [remove_starting_at_index |-> start,
        remove_ending_at_index |-> end,
        boneyard |-> boneyard]
  ELSE LET line == content_lines[index + 1]
       IN  IF start = None
           THEN IF ms_match(removing, line)
                THEN scan(content_lines, removing, index + 1,
                          backward_walk(content_lines, index - 1, index),
                          index, boneyard)
                ELSE scan(content_lines, removing, index + 1, start, end, boneyard)
           ELSE IF doit(line)
                THEN scan(content_lines, removing, index + 1, None, None,
                          dict_set(boneyard, start, index))
                ELSE scan(content_lines, removing, index + 1, start, index, boneyard)

\* the spans recorded once the loop and the trailing test have run
recorded_spans(original, removing) ==
  LET r == scan(original, removing, 0, None, None, <<>>)
  IN  IF /\ r.remove_starting_at_index # None
         /\ r.remove_ending_at_index # None
         /\ r.remove_starting_at_index # r.remove_ending_at_index
      THEN dict_set(r.boneyard, r.remove_starting_at_index, r.remove_ending_at_index)
      ELSE r.boneyard

\* for startidx in reversed(boneyard.keys()): del content_lines[startidx: endidx + 1]
RECURSIVE delete_spans(_, _, _)
delete_spans(content_lines, boneyard, k) ==
  IF k = 0 THEN content_lines
  ELSE delete_spans(py_del_slice(content_lines, boneyard[k][1], boneyard[k][2] + 1),
                    boneyard, k - 1)

\* swap_text(original, adding, removing): content_lines is the list the
\* caller passed in, edited in place; ret is the returned string
swap_text(original, adding, removing) ==
  LET boneyard == recorded_spans(original, removing)
      deleted == delete_spans(original, boneyard, Len(boneyard))
      content_lines == IF Len(adding) > 0
                       THEN deleted \o py_split(adding)
                       ELSE deleted
  IN  [content_lines |-> content_lines, ret |-> py_join(content_lines)]

\* ---------------------------------------------------------------------
\* run_module: the generated block (parmtext) and the tso command
\* ---------------------------------------------------------------------
WrapColumn == 60
WrapScanFrom == 59
WrapScanStop == 48

\* find_stopper with the scan taken one position further down, to 48
RECURSIVE find_stopper_to_48(_, _)
find_stopper_to_48(extra, i) ==
  IF i < WrapScanStop THEN WrapColumn
  ELSE IF extra[i + 1] = " " THEN i
  ELSE find_stopper_to_48(extra, i - 1)

\* for i in range(59, 48, -1): if extra[i] == " ": stopper = i; break
RECURSIVE find_stopper(_, _)
find_stopper(extra, i) ==
  IF i <= WrapScanStop THEN WrapColumn
  ELSE IF extra[i + 1] = " " THEN i
  ELSE find_stopper(extra, i - 1)

\* wrap_emit with the cut taken one character further, tmpx = extra[0:stopper + 1]
wrap_emit_inclusive(w) ==
  IF Len(w.extra) > WrapColumn
  THEN LET stopper == find_stopper(w.extra, WrapScanFrom)
           tmpx == py_slice(w.extra, 0, stopper + 1)
       IN  [parmtext |-> w.parmtext \o <<"/","*"," ","C">> \o py_str(w.ctr) \o <<":">> \o tmpx \o <<" ","*","/","\n">>,
            extra |-> py_strip(py_slice_from(w.extra, stopper)),
            ctr |-> w.ctr + 1]
  ELSE [parmtext |-> w.parmtext \o <<"/","*"," ","C">> \o py_str(w.ctr) \o <<":">> \o w.extra \o <<" ","*","/","\n">>,
        extra |-> <<>>,
        ctr |-> w.ctr + 1]

\* one pass of the wrap body shared by the for loop and the while loop:
\* emits one "/* C<ctr>:<text> */" line and leaves the rest in extra
wrap_emit(w) ==
  IF Len(w.extra) > WrapColumn
  THEN LET stopper == find_stopper(w.extra, WrapScanFrom)
           tmpx == py_slice(w.extra, 0, stopper)
       IN  [parmtext |-> w.parmtext \o <<"/","*"," ","C">> \o py_str(w.ctr) \o <<":">> \o tmpx \o <<" ","*","/","\n">>,
            extra |-> py_strip(py_slice_from(w.extra, stopper)),
            ctr |-> w.ctr + 1]
  ELSE [parmtext |-> w.parmtext \o <<"/","*"," ","C">> \o py_str(w.ctr) \o <<":">> \o w.extra \o <<" ","*","/","\n">>,
        extra |-> <<>>,
        ctr |-> w.ctr + 1]

\* for tabline in tabcomment: ...
RECURSIVE wrap_for(_, _)
wrap_for(tabcomment, w) ==
  IF Len(tabcomment) = 0 THEN w
  ELSE LET joined == (IF Len(w.extra) > 0 THEN w.extra \o <<" ">> ELSE w.extra)
                       \o py_strip(tabcomment[1])
       IN  wrap_for(Tail(tabcomment), wrap_emit([w EXCEPT !.extra = joined]))

\* wrap_while with the loop written as a single if
wrap_while_once(w) ==
  IF Len(w.extra) > 0 THEN wrap_emit(w) ELSE w

\* while len(extra) > 0: ...
RECURSIVE wrap_while(_)
wrap_while(w) ==
  IF Len(w.extra) > 0 THEN wrap_while(wrap_emit(w)) ELSE w

\* parmtext after the BEGIN line and the comment lines; a tabcomment of
\* None and an empty list both emit nothing and are both written <<>>
parmtext_comments(dtstr, tabcomment) ==
  LET begin == <<"/","*"," ","B","E","G","I","N"," ","A","N","S","I","B","L","E"," ","M","A","N","A","G","E","D"," ","B","L","O","C","K"," ">> \o dtstr \o <<" ","*","/","\n">>
  IN  wrap_while(wrap_for(tabcomment, [parmtext |-> begin, extra |-> <<>>, ctr |-> 1])).parmtext

\* parmtail with the replacement of BEGIN left out
parmtail_unreplaced(dtstr) ==
  <<"\n">> \o <<"/","*"," ","B","E","G","I","N"," ","A","N","S","I","B","L","E"," ","M","A","N","A","G","E","D"," ","B","L","O","C","K"," ">> \o dtstr \o <<" ","*","/","\n">>

\* parmtail = "\n" + parmtext.replace("BEGIN", "END"), taken before the
\* comment lines are added
parmtail(dtstr) ==
  <<"\n">> \o py_replace(<<"/","*"," ","B","E","G","I","N"," ","A","N","S","I","B","L","E"," ","M","A","N","A","G","E","D"," ","B","L","O","C","K"," ">> \o dtstr \o <<" ","*","/","\n">>, <<"B","E","G","I","N">>, <<"E","N","D">>)

\* gonna_mount with remounted taken for a state that only unmounts
gonna_mount_not_remounted(state) ==
  ~(py_in(<<"u","n","m","o","u","n","t","e","d">>, state) \/ py_in(<<"r","e","m","o","u","n","t","e","d">>, state) \/ py_in(<<"a","b","s","e","n","t">>, state))

gonna_mount(state) == ~(py_in(<<"u","n","m","o","u","n","t","e","d">>, state) \/ py_in(<<"a","b","s","e","n","t">>, state))

gonna_unmount(state) ==
  py_in(<<"u","n","m","o","u","n","t","e","d">>, state) \/ py_in(<<"r","e","m","o","u","n","t","e","d">>, state) \/ py_in(<<"a","b","s","e","n","t">>, state)

\* the directive lines appended to parmtext when gonna_mount
parmtext_directive(p) ==
  LET subcmd == IF py_in(<<"r","o">>, p.mount_opts) \/ py_in(<<"R","O">>, p.mount_opts)
                THEN <<"R","E","A","D">> ELSE <<"R","D","W","R">>
      t1 == <<"M","O","U","N","T"," ","F","I","L","E","S","Y","S","T","E","M","(","'">> \o p.src \o <<"'",")","\n"," "," "," "," "," "," ","M","O","U","N","T","P","O","I","N","T","(","'">> \o p.path
              \o <<"'",")","\n"," "," "," "," "," "," ","T","Y","P","E","(","'">> \o p.fs_type \o <<"'",")">>
      t2 == t1 \o <<"\n"," "," "," "," "," "," ","M","O","D","E","(">> \o subcmd \o <<")">>
      t3 == IF Len(p.src_params) > 1
            THEN t2 \o <<"\n"," "," "," "," "," "," ","P","A","R","M","(","'">> \o p.src_params \o <<"'",")">> ELSE t2
      t4 == IF Len(p.tag_untagged) > 0
            THEN t3 \o <<"\n"," "," "," "," "," "," ","T","A","G","(">> \o p.tag_untagged \o <<",">> \o p.tag_ccsid \o <<")">> ELSE t3
      t5 == IF p.allow_uid THEN t4 \o <<"\n"," "," "," "," "," "," ","S","E","T","U","I","D">> ELSE t4 \o <<"\n"," "," "," "," "," "," ","N","O","S","E","T","U","I","D">>
      t6 == IF py_in(<<"N","O","W","A","I","T">>, p.mount_opts) \/ py_in(<<"n","o","w","a","i","t">>, p.mount_opts)
            THEN t5 \o <<"\n"," "," "," "," "," "," ","N","O","W","A","I","T">> ELSE t5 \o <<"\n"," "," "," "," "," "," ","W","A","I","T">>
      t7 == IF py_in(<<"N","O","S","E","C","U","R","I","T","Y">>, p.mount_opts) \/ py_in(<<"n","o","s","e","c","u","r","i","t","y">>, p.mount_opts)
            THEN t6 \o <<"\n"," "," "," "," "," "," ","N","O","S","E","C","U","R","I","T","Y">> ELSE t6 \o <<"\n"," "," "," "," "," "," ","S","E","C","U","R","I","T","Y">>
      t8 == IF Len(p.sysname) > 0 /\ Len(p.sysname) < 9
            THEN t7 \o <<"\n"," "," "," "," "," "," ","S","Y","S","N","A","M","E","(">> \o p.sysname \o <<")">> ELSE t7
      t9 == IF Len(p.automove) > 1
            THEN LET m == t8 \o <<"\n"," "," "," "," "," "," ">> \o p.automove
                 IN  IF Len(p.automove_list) > 1
                     THEN m \o <<"(">> \o p.automove_list \o <<")">> ELSE m
            ELSE t8
  IN  t9

\* fullcmd: the tso mount command, built option by option beside parmtext
fullcmd_mount(p) ==
  LET subcmd == IF py_in(<<"r","o">>, p.mount_opts) \/ py_in(<<"R","O">>, p.mount_opts)
                THEN <<"R","E","A","D">> ELSE <<"R","D","W","R">>
      c1 == <<"t","s","o","c","m","d"," ","M","O","U","N","T"," ","F","I","L","E","S","Y","S","T","E","M","\\","("," ","\\","'">> \o p.src \o <<"\\","'"," ","\\",")"," ","M","O","U","N","T","P","O","I","N","T","\\","("," ","\\","'">> \o p.path
              \o <<"\\","'"," ","\\",")"," ","T","Y","P","E","\\","("," ","'">> \o p.fs_type \o <<"'"," ","\\",")">>
      c2 == c1 \o <<" ","M","O","D","E","\\","(">> \o subcmd \o <<"\\",")">>
      c3 == IF Len(p.src_params) > 1
            THEN c2 \o <<" ","P","A","R","M","\\","(","\\","'">> \o p.src_params \o <<"\\","'","\\",")">> ELSE c2
      c4 == IF Len(p.tag_untagged) > 0
            THEN c3 \o <<" ","T","A","G","\\","(">> \o p.tag_untagged \o <<",">> \o p.tag_ccsid \o <<"\\",")">> ELSE c3
      c5 == IF p.allow_uid THEN c4 \o <<" ","S","E","T","U","I","D">> ELSE c4 \o <<" ","N","O","S","E","T","U","I","D">>
      c6 == IF py_in(<<"N","O","W","A","I","T">>, p.mount_opts) \/ py_in(<<"n","o","w","a","i","t">>, p.mount_opts)
            THEN c5 \o <<" ","N","O","W","A","I","T">> ELSE c5 \o <<" ","W","A","I","T">>
      c7 == IF py_in(<<"N","O","S","E","C","U","R","I","T","Y">>, p.mount_opts) \/ py_in(<<"n","o","s","e","c","u","r","i","t","y">>, p.mount_opts)
            THEN c6 \o <<" ","N","O","S","E","C","U","R","I","T","Y">> ELSE c6 \o <<" ","S","E","C","U","R","I","T","Y">>
      c8 == IF Len(p.sysname) > 0 /\ Len(p.sysname) < 9
            THEN c7 \o <<" ","S","Y","S","N","A","M","E","\\","(">> \o p.sysname \o <<"\\",")">> ELSE c7
      c9 == IF Len(p.automove) > 1
            THEN LET m == c8 \o <<" ">> \o p.automove
                 IN  IF Len(p.automove_list) > 1
                     THEN m \o <<"(">> \o p.automove_list \o <<")">> ELSE m
            ELSE c8
  IN  c9

\* fullcmd as left by the assembly: empty unless gonna_mount
assemble_fullcmd(p) == IF gonna_mount(p.state) THEN fullcmd_mount(p) ELSE <<>>

\* fullumcmd as left by the assembly: empty unless gonna_unmount
assemble_fullumcmd(p) ==
  IF gonna_unmount(p.state)
  THEN IF Len(p.unmount_opts) < 2
       THEN assemble_fullcmd(p) \o <<" ">> \o <<"N","O","R","M","A","L">>
       ELSE <<"t","s","o","c","m","d"," ","U","N","M","O","U","N","T"," ","F","I","L","E","S","Y","S","T","E","M","\\","("," ","'">> \o p.src \o <<"'"," ","\\",")">>
  ELSE <<>>

\* write_persistent
write_persistent(p) ==
  /\ (py_in(<<"m","o","u","n","t","e","d">>, p.state) \/ py_in(<<"p","r","e","s","e","n","t">>, p.state) \/ py_in(<<"a","b","s","e","n","t">>, p.state))
  /\ p.persistent.given
  /\ Len(py_upper(p.persistent.data_set_name)) > 0

\* parmtext as handed to swap_text
assemble_parmtext(p, dtstr) ==
  IF gonna_mount(p.state)
  THEN parmtext_comments(dtstr, p.tabcomment) \o parmtext_directive(p) \o parmtail(dtstr)
  ELSE <<>>

\* ---------------------------------------------------------------------
\* Inputs: data set names, time stamps, lines and buffers
\* ---------------------------------------------------------------------
MaxSegs == 3
MaxCalls == 2
MaxMemberSegs == 2

\* data set names; AXB.C differs from A.B.C only where A.B.C has its first dot,
\* A.B.CD has A.B.C as a prefix
N_ABC == <<"A",".","B",".","C">>
N_AXBC == <<"A","X","B",".","C">>
N_abc == <<"a",".","b",".","c">>
N_ABCD == <<"A",".","B",".","C","D">>
Names == {N_ABC, N_AXBC, N_abc}

\* dtstr = d.strftime(...): a time stamp YYYYMMDD-HHMMSS
T_old == <<"2","0","2","1","0","1","0","1","-","0","0","0","0","0","0">>
T_new == <<"2","0","2","1","0","1","0","2","-","0","0","0","0","0","0">>

States == {<<"a","b","s","e","n","t">>, <<"m","o","u","n","t","e","d">>, <<"u","n","m","o","u","n","t","e","d">>, <<"p","r","e","s","e","n","t">>, <<"r","e","m","o","u","n","t","e","d">>}

\* persistent: given is FALSE when the option is absent; a backup_name of
\* None is written <<>>
NoPersistent == [given |-> FALSE, data_set_name |-> <<>>, backup |-> FALSE, backup_name |-> <<>>]

\* module.params after parsing, every option not listed in the arguments
\* at its argument_spec default
DefaultParams(src, state, persistent, tabcomment) ==
  [src |-> src, path |-> <<"/","p">>, fs_type |-> <<"Z","F","S">>, state |-> state,
   persistent |-> persistent, tabcomment |-> tabcomment,
   unmount_opts |-> <<"N","O","R","M","A","L">>, mount_opts |-> <<"r","w">>, src_params |-> <<>>,
   tag_untagged |-> <<>>, tag_ccsid |-> <<"N","o","n","e">>, allow_uid |-> TRUE,
   sysname |-> <<>>, automove |-> <<"A","U","T","O","M","O","V","E">>, automove_list |-> <<>>]

\* the lines of a managed block as the builder writes them
BlockLines(src, dtstr, tabcomment) ==
  py_splitlines(assemble_parmtext(DefaultParams(src, <<"m","o","u","n","t","e","d">>, NoPersistent, tabcomment), dtstr))

L_blank == <<>>
L_stmt == <<"M","A","X","P","R","O","C","S","Y","S","(","9","0","0",")">>
L_comment == <<"/","*"," ","l","o","c","a","l"," ","*","/">>
L_lower == <<"m","o","u","n","t"," ","f","i","l","e","s","y","s","t","e","m","(","'","A",".","B",".","C","'",")">>
L_end == <<"/","*"," ","E","N","D"," ","A","N","S","I","B","L","E"," ","M","A","N","A","G","E","D"," ","B","L","O","C","K"," ","2","0","2","0","1","2","3","1","-","0","0","0","0","0","0"," ","*","/">>
Directive(name) == <<"M","O","U","N","T"," ","F","I","L","E","S","Y","S","T","E","M","(","'">> \o name \o <<"'",")">>

\* the managed blocks a buffer may hold, each with the src it was built for
ManagedBlocks ==
  {[src |-> N_ABC, lines |-> BlockLines(N_ABC, T_old, <<>>)],
   [src |-> N_AXBC, lines |-> BlockLines(N_AXBC, T_old, <<<<"z","f","s"," ","f","o","r"," ","x"," ">>>>)]}

Segments ==
  {<<L_blank>>, <<L_stmt>>, <<L_comment>>, <<L_lower>>, <<L_end>>}
  \cup {<<Directive(n)>> : n \in Names}
  \cup {m.lines : m \in ManagedBlocks}

RECURSIVE Flatten(_)
Flatten(segs) == IF Len(segs) = 0 THEN <<>> ELSE segs[1] \o Flatten(Tail(segs))

SegSeqs(S, n) == UNION {[1..k -> S] : k \in 0..n}

Buffers == {Flatten(ss) : ss \in SegSeqs(Segments, MaxSegs)}

\* ---------------------------------------------------------------------
\* State
\* ---------------------------------------------------------------------
VARIABLES
  \* a caller of swap_text
  original,   \* the list handed to swap_text, edited in place by each call
  adding,     \* second argument of swap_text
  removing,   \* third argument of swap_text
  ret,        \* value returned by the latest call
  ncalls,     \* calls made so far
  input,      \* the list as it was before the first call
  once,       \* the list as it was after the first call
  \* one run of the module and the system it acts on
  params,     \* parsed_args
  check_mode, \* module.check_mode
  mounted,    \* data sets the system has mounted, in df order
  mounted_at_start, \* mounted as it was when the run began
  member,     \* records of the persistent data set member
  member_at_start, \* member as it was when the run began
  pc,         \* position of the run inside run_module
  changed,
  currently_mounted,
  parmtext,
  fullcmd,
  fullumcmd,
  rc,
  stdout,
  issued,     \* commands passed to module.run_command after df with the return code of each, in order
  backups,    \* backup copies made so far
  mkdirs,     \* mount point directories created so far
  writes,     \* copy_uss2mvs calls so far
  content,    \* the list read from the temporary file, as swap_text leaves it
  newtext,    \* what swap_text returned
  msg,        \* msg of fail_json when the run failed
  res_args    \* the result handed to exit_json

editVars == <<original, adding, removing, ret, ncalls, input, once>>
runVars == <<params, check_mode, mounted, mounted_at_start, member, member_at_start, pc, changed, currently_mounted,
             parmtext, fullcmd, fullumcmd, rc, stdout, issued, backups, mkdirs,
             writes, content, newtext, msg, res_args>>
vars == <<editVars, runVars>>

\* res_args before the run fills it in
NoResult == [changed |-> FALSE, cmd |-> <<"n","o","t"," ","b","u","i","l","t">>, rc |-> 0, stdout |-> "", stderr |-> ""]

\* the run part of the state before run_module is entered
RunIdle ==
  /\ params = DefaultParams(N_ABC, <<"m","o","u","n","t","e","d">>, NoPersistent, <<>>)
  /\ check_mode = FALSE
  /\ mounted = <<>>
  /\ mounted_at_start = <<>>
  /\ member = <<>>
  /\ member_at_start = <<>>
  /\ pc = "idle"
  /\ changed = FALSE
  /\ currently_mounted = FALSE
  /\ parmtext = <<>>
  /\ fullcmd = <<>>
  /\ fullumcmd = <<>>
  /\ rc = 0
  /\ stdout = ""
  /\ issued = <<>>
  /\ backups = 0
  /\ mkdirs = 0
  /\ writes = 0
  /\ content = <<>>
  /\ newtext = <<>>
  /\ msg = ""
  /\ res_args = NoResult

\* ---------------------------------------------------------------------
\* The editor applied repeatedly to one buffer
\* ---------------------------------------------------------------------
InitEdit ==
  /\ original \in Buffers
  /\ removing \in Names
  /\ adding \in {<<>>, assemble_parmtext(DefaultParams(removing, <<"m","o","u","n","t","e","d">>, NoPersistent, <<>>), T_new)}
  /\ ret = <<>>
  /\ ncalls = 0
  /\ input = original
  /\ once = original
  /\ RunIdle

CallSwapText ==
  /\ ncalls < MaxCalls
  /\ \E r \in {swap_text(original, adding, removing)} :
         /\ original' = r.content_lines
         /\ ret' = r.ret
         /\ once' = IF ncalls = 0 THEN r.content_lines ELSE once
  /\ ncalls' = ncalls + 1
  /\ UNCHANGED <<adding, removing, input>>
  /\ UNCHANGED runVars

NextEdit == CallSwapText

SpecEdit == InitEdit /\ [][NextEdit]_vars

\* ---------------------------------------------------------------------
\* One run of the module
\* ---------------------------------------------------------------------
RunSrcs == {N_ABC, N_AXBC}

Persistents ==
  {NoPersistent,
   [given |-> TRUE, data_set_name |-> <<"s","y","s","1",".","p","(","m",")">>, backup |-> FALSE, backup_name |-> <<>>],
   [given |-> TRUE, data_set_name |-> <<"s","y","s","1",".","p","(","m",")">>, backup |-> TRUE, backup_name |-> <<"s","y","s","1",".","b","k">>],
   [given |-> TRUE, data_set_name |-> <<"s","y","s","1",".","p","(","m",")">>, backup |-> TRUE, backup_name |-> <<>>]}

MountTables == {<<>>, <<N_ABC>>, <<N_ABCD>>}

MemberSegments ==
  {<<L_stmt>>, BlockLines(N_ABC, T_old, <<>>), BlockLines(N_AXBC, T_old, <<<<"z","f","s"," ","f","o","r"," ","x"," ">>>>)}

Members == {Flatten(ss) : ss \in SegSeqs(MemberSegments, MaxMemberSegs)}

\* return codes a tso command may end with
CmdRcs == {0, 8}

\* stdout of df: a heading and one line per mounted file system
RECURSIVE df_rows(_)
df_rows(table) ==
  IF Len(table) = 0 THEN <<>>
  ELSE <<"/","m","n","t"," ","(">> \o table[1] \o <<")"," ","A","v","a","i","l","a","b","l","e","\n">> \o df_rows(Tail(table))

df_stdout(table) == <<"M","o","u","n","t","e","d"," ","o","n"," ","F","i","l","e","s","y","s","t","e","m"," ","S","t","a","t","u","s","\n">> \o df_rows(table)

\* the mount table after the system ran cmd for src with return code r
sys_run_command(cmd, r, src, table) ==
  LET name == py_upper(src)
      listed == \E i \in 1..Len(table) : table[i] = name
  IN  IF r # 0 THEN table
      ELSE IF py_startswith_at(cmd, 1, <<"t","s","o","c","m","d"," ","M","O","U","N","T"," ">>)
      THEN IF listed THEN table ELSE Append(table, name)
      ELSE IF py_startswith_at(cmd, 1, <<"t","s","o","c","m","d"," ","U","N","M","O","U","N","T"," ">>)
      THEN SelectSeq(table, LAMBDA n : n # name)
      ELSE table

\* copy_ps2uss: the member's records as the text of the temporary file
RECURSIVE uss_file_text(_)
uss_file_text(records) ==
  IF Len(records) = 0 THEN <<>>
  ELSE records[1] \o <<"\n">> \o uss_file_text(Tail(records))

\* python values of different types never compare equal
PyStr(v) == [type |-> "str", val |-> v]
PyList(v) == [type |-> "list", val |-> v]
py_ne(a, b) == a.type # b.type \/ a.val # b.val

Init ==
  /\ params \in {DefaultParams(src, state, persistent, <<>>) :
                   src \in RunSrcs, state \in States, persistent \in Persistents}
  /\ check_mode \in BOOLEAN
  /\ mounted \in MountTables
  /\ mounted_at_start = mounted
  /\ member \in (IF params.persistent.given THEN Members ELSE {<<>>})
  /\ member_at_start = member
  /\ pc = "start"
  /\ changed = FALSE
  /\ currently_mounted = FALSE
  /\ parmtext = <<>>
  /\ fullcmd = <<>>
  /\ fullumcmd = <<>>
  /\ rc = 0
  /\ stdout = ""
  /\ issued = <<>>
  /\ backups = 0
  /\ mkdirs = 0
  /\ writes = 0
  /\ content = <<>>
  /\ newtext = <<>>
  /\ msg = ""
  /\ res_args = NoResult
  /\ original = <<>>
  /\ adding = <<>>
  /\ removing = <<>>
  /\ ret = <<>>
  /\ ncalls = 0
  /\ input = <<>>
  /\ once = <<>>

\* module.fail_json(msg=...)
fail_json(m) ==
  /\ pc' = "failed"
  /\ msg' = m

\* if persistent: ... if backup: res_args["backup_name"] = mt_backupOper(...)
BackupOper ==
  /\ pc = "start"
  /\ params.persistent.given /\ params.persistent.backup
  /\ backups' = backups + 1
  /\ pc' = "check_src"
  /\ UNCHANGED <<params, check_mode, mounted, mounted_at_start, member, member_at_start, changed,
                 currently_mounted, parmtext, fullcmd, fullumcmd, rc, stdout, issued,
                 mkdirs, writes, content, newtext, msg, res_args>>
  /\ UNCHANGED editVars

\* mt_backupOper: unsupported data set type, or the backup raised
BackupOperFails ==
  /\ pc = "start"
  /\ params.persistent.given /\ params.persistent.backup
  /\ fail_json("creating backup has failed")
  /\ UNCHANGED <<params, check_mode, mounted, mounted_at_start, member, member_at_start, changed,
                 currently_mounted, parmtext, fullcmd, fullumcmd, rc, stdout, issued,
                 backups, mkdirs, writes, content, newtext, res_args>>
  /\ UNCHANGED editVars

NoBackup ==
  /\ pc = "start"
  /\ ~(params.persistent.given /\ params.persistent.backup)
  /\ pc' = "check_src"
  /\ UNCHANGED <<params, check_mode, mounted, mounted_at_start, member, member_at_start, changed,
                 currently_mounted, parmtext, fullcmd, fullumcmd, rc, stdout, issued,
                 backups, mkdirs, writes, content, newtext, msg, res_args>>
  /\ UNCHANGED editVars

\* fs_exists is False
SrcMissing ==
  /\ pc = "check_src"
  /\ fail_json("Mount source doesn't exist")
  /\ UNCHANGED <<params, check_mode, mounted, mounted_at_start, member, member_at_start, changed,
                 currently_mounted, parmtext, fullcmd, fullumcmd, rc, stdout, issued,
                 backups, mkdirs, writes, content, newtext, res_args>>
  /\ UNCHANGED editVars

SrcExists ==
  /\ pc = "check_src"
  /\ pc' = "check_path"
  /\ UNCHANGED <<params, check_mode, mounted, mounted_at_start, member, member_at_start, changed,
                 currently_mounted, parmtext, fullcmd, fullumcmd, rc, stdout, issued,
                 backups, mkdirs, writes, content, newtext, msg, res_args>>
  /\ UNCHANGED editVars

\* not mounting, or the mount point is there already
PathReady ==
  /\ pc = "check_path"
  /\ pc' = "df"
  /\ UNCHANGED <<params, check_mode, mounted, mounted_at_start, member, member_at_start, changed,
                 currently_mounted, parmtext, fullcmd, fullumcmd, rc, stdout, issued,
                 backups, mkdirs, writes, content, newtext, msg, res_args>>
  /\ UNCHANGED editVars

\* if gonna_mount: mp_exists is False: os.mkdir(path)
Mkdir ==
  /\ pc = "check_path"
  /\ gonna_mount(params.state)
  /\ mkdirs' = mkdirs + 1
  /\ pc' = "df"
  /\ UNCHANGED <<params, check_mode, mounted, mounted_at_start, member, member_at_start, changed,
                 currently_mounted, parmtext, fullcmd, fullumcmd, rc, stdout, issued,
                 backups, writes, content, newtext, msg, res_args>>
  /\ UNCHANGED editVars

MkdirFails ==
  /\ pc = "check_path"
  /\ gonna_mount(params.state)
  /\ fail_json("mkdir failed")
  /\ UNCHANGED <<params, check_mode, mounted, mounted_at_start, member, member_at_start, changed,
                 currently_mounted, parmtext, fullcmd, fullumcmd, rc, stdout, issued,
                 backups, mkdirs, writes, content, newtext, res_args>>
  /\ UNCHANGED editVars

\* rc, stdout, stderr = module.run_command("df"): rc != 0
DfFails ==
  /\ pc = "df"
  /\ fail_json("Checking filesystem list failed with error")
  /\ UNCHANGED <<params, check_mode, mounted, mounted_at_start, member, member_at_start, changed,
                 currently_mounted, parmtext, fullcmd, fullumcmd, rc, stdout, issued,
                 backups, mkdirs, writes, content, newtext, res_args>>
  /\ UNCHANGED editVars

\* for line in sttest: if src in line: currently_mounted = True
Df ==
  /\ pc = "df"
  /\ LET sttest == py_splitlines(df_stdout(mounted))
     IN  currently_mounted' = \E i \in 1..Len(sttest) : py_in(params.src, sttest[i])
  /\ rc' = 0
  /\ stdout' = "df listing"
  /\ pc' = "assemble"
  /\ UNCHANGED <<params, check_mode, mounted, mounted_at_start, member, member_at_start, changed,
                 parmtext, fullcmd, fullumcmd, issued,
                 backups, mkdirs, writes, content, newtext, msg, res_args>>
  /\ UNCHANGED editVars

\* Assemble the mount command
Assemble ==
  /\ pc = "assemble"
  /\ \E dtstr \in {T_new} : parmtext' = assemble_parmtext(params, dtstr)
  /\ fullcmd' = assemble_fullcmd(params)
  /\ fullumcmd' = assemble_fullumcmd(params)
  /\ pc' = "unmount"
  /\ UNCHANGED <<params, check_mode, mounted, mounted_at_start, member, member_at_start, changed,
                 currently_mounted, rc, stdout, issued,
                 backups, mkdirs, writes, content, newtext, msg, res_args>>
  /\ UNCHANGED editVars

\* if gonna_unmount: if currently_mounted: ... else: nothing to unmount
UnmountSkip ==
  /\ pc = "unmount"
  /\ ~(gonna_unmount(params.state) /\ currently_mounted)
  /\ pc' = "mount"
  /\ UNCHANGED <<params, check_mode, mounted, mounted_at_start, member, member_at_start, changed,
                 currently_mounted, parmtext, fullcmd, fullumcmd, rc, stdout, issued,
                 backups, mkdirs, writes, content, newtext, msg, res_args>>
  /\ UNCHANGED editVars

UnmountCheckMode ==
  /\ pc = "unmount"
  /\ gonna_unmount(params.state) /\ currently_mounted
  /\ check_mode
  /\ changed' = TRUE
  /\ stdout' = "ANSIBLE CHECK MODE"
  /\ pc' = "mount"
  /\ UNCHANGED <<params, check_mode, mounted, mounted_at_start, member, member_at_start,
                 currently_mounted, parmtext, fullcmd, fullumcmd, rc, issued,
                 backups, mkdirs, writes, content, newtext, msg, res_args>>
  /\ UNCHANGED editVars

\* (rc, stdout, stderr) = module.run_command(fullumcmd)
UnmountRun ==
  /\ pc = "unmount"
  /\ gonna_unmount(params.state) /\ currently_mounted
  /\ ~check_mode
  /\ changed' = TRUE
  /\ \E r \in CmdRcs :
       /\ rc' = r
       /\ mounted' = sys_run_command(fullumcmd, r, params.src, mounted)
       /\ issued' = Append(issued, [cmd |-> fullumcmd, rc |-> r])
  /\ stdout' = "unmount output"
  /\ currently_mounted' = FALSE
  /\ pc' = "mount"
  /\ UNCHANGED <<params, check_mode, mounted_at_start, member, member_at_start,
                 parmtext, fullcmd, fullumcmd,
                 backups, mkdirs, writes, content, newtext, msg, res_args>>
  /\ UNCHANGED editVars

\* except Exception as err: module.fail_json(msg=str(err), ...)
UnmountRaises ==
  /\ pc = "unmount"
  /\ gonna_unmount(params.state) /\ currently_mounted
  /\ ~check_mode
  /\ changed' = TRUE
  /\ fail_json("unmount command raised")
  /\ UNCHANGED <<params, check_mode, mounted, mounted_at_start, member, member_at_start,
                 currently_mounted, parmtext, fullcmd, fullumcmd, rc, stdout, issued,
                 backups, mkdirs, writes, content, newtext, res_args>>
  /\ UNCHANGED editVars

\* if gonna_mount: if currently_mounted is False: ... else: already mounted
MountSkip ==
  /\ pc = "mount"
  /\ ~(gonna_mount(params.state) /\ ~currently_mounted)
  /\ pc' = "persist"
  /\ UNCHANGED <<params, check_mode, mounted, mounted_at_start, member, member_at_start, changed,
                 currently_mounted, parmtext, fullcmd, fullumcmd, rc, stdout, issued,
                 backups, mkdirs, writes, content, newtext, msg, res_args>>
  /\ UNCHANGED editVars

MountCheckMode ==
  /\ pc = "mount"
  /\ gonna_mount(params.state) /\ ~currently_mounted
  /\ check_mode
  /\ changed' = TRUE
  /\ stdout' = "ANSIBLE CHECK MODE"
  /\ pc' = "persist"
  /\ UNCHANGED <<params, check_mode, mounted, mounted_at_start, member, member_at_start,
                 currently_mounted, parmtext, fullcmd, fullumcmd, rc, issued,
                 backups, mkdirs, writes, content, newtext, msg, res_args>>
  /\ UNCHANGED editVars

\* (rc, stdout, stderr) = module.run_command(fullcmd)
MountRun ==
  /\ pc = "mount"
  /\ gonna_mount(params.state) /\ ~currently_mounted
  /\ ~check_mode
  /\ changed' = TRUE
  /\ \E r \in CmdRcs :
       /\ rc' = r
       /\ mounted' = sys_run_command(fullcmd, r, params.src, mounted)
       /\ issued' = Append(issued, [cmd |-> fullcmd, rc |-> r])
  /\ stdout' = "mount output"
  /\ pc' = "persist"
  /\ UNCHANGED <<params, check_mode, mounted_at_start, member, member_at_start,
                 currently_mounted, parmtext, fullcmd, fullumcmd,
                 backups, mkdirs, writes, content, newtext, msg, res_args>>
  /\ UNCHANGED editVars

MountRaises ==
  /\ pc = "mount"
  /\ gonna_mount(params.state) /\ ~currently_mounted
  /\ ~check_mode
  /\ changed' = TRUE
  /\ fail_json("mount command raised")
  /\ UNCHANGED <<params, check_mode, mounted, mounted_at_start, member, member_at_start,
                 currently_mounted, parmtext, fullcmd, fullumcmd, rc, stdout, issued,
                 backups, mkdirs, writes, content, newtext, res_args>>
  /\ UNCHANGED editVars

\* rc = 0; stdout = stderr = None; nothing to write to the member
PersistSkip ==
  /\ pc = "persist"
  /\ ~(write_persistent(params) /\ ~check_mode)
  /\ rc' = 0
  /\ stdout' = "None"
  /\ pc' = "exit"
  /\ UNCHANGED <<params, check_mode, mounted, mounted_at_start, member, member_at_start, changed,
                 currently_mounted, parmtext, fullcmd, fullumcmd, issued,
                 backups, mkdirs, writes, content, newtext, msg, res_args>>
  /\ UNCHANGED editVars

\* fst_exists is False
MemberMissing ==
  /\ pc = "persist"
  /\ write_persistent(params) /\ ~check_mode
  /\ rc' = 0
  /\ stdout' = "None"
  /\ fail_json("persistent ds set member doesn't exist")
  /\ UNCHANGED <<params, check_mode, mounted, mounted_at_start, member, member_at_start, changed,
                 currently_mounted, parmtext, fullcmd, fullumcmd, issued,
                 backups, mkdirs, writes, content, newtext, res_args>>
  /\ UNCHANGED editVars

\* if backup: copy_mvs2mvs(data_set_name, backup_name, False);
\* comment += "Wrote backup to " + backup_name raises TypeError when
\* backup_name is None, before the member is read
BackupNameRaises ==
  /\ pc = "persist"
  /\ write_persistent(params) /\ ~check_mode
  /\ params.persistent.backup /\ params.persistent.backup_name = <<>>
  /\ rc' = 0
  /\ stdout' = "None"
  /\ fail_json("TypeError")
  /\ UNCHANGED <<params, check_mode, mounted, mounted_at_start, member, member_at_start, changed,
                 currently_mounted, parmtext, fullcmd, fullumcmd, issued,
                 backups, mkdirs, writes, content, newtext, res_args>>
  /\ UNCHANGED editVars

\* copy the member out, edit it with swap_text, copy it back if
\* newtext != content
PersistEdit ==
  /\ pc = "persist"
  /\ write_persistent(params) /\ ~check_mode
  /\ ~(params.persistent.backup /\ params.persistent.backup_name = <<>>)
  /\ rc' = 0
  /\ stdout' = "None"
  /\ backups' = IF params.persistent.backup THEN backups + 1 ELSE backups
  /\ \E r \in {swap_text(py_splitlines(uss_file_text(member)), parmtext, params.src)} :
         /\ content' = r.content_lines
         /\ newtext' = r.ret
         /\ IF py_ne(PyStr(r.ret), PyList(r.content_lines))
            THEN /\ member' = py_splitlines(r.ret)
                 /\ writes' = writes + 1
            ELSE UNCHANGED <<member, writes>>
  /\ pc' = "exit"
  /\ UNCHANGED <<params, check_mode, mounted, mounted_at_start, member_at_start, changed,
                 currently_mounted, parmtext, fullcmd, fullumcmd, issued,
                 mkdirs, msg, res_args>>
  /\ UNCHANGED editVars

\* res_args.update(...); return res_args; module.exit_json(**res_args)
Exit ==
  /\ pc = "exit"
  /\ res_args' = [changed |-> changed, cmd |-> fullcmd, rc |-> rc,
                  stdout |-> stdout, stderr |-> "None"]
  /\ pc' = "done"
  /\ UNCHANGED <<params, check_mode, mounted, mounted_at_start, member, member_at_start, changed,
                 currently_mounted, parmtext, fullcmd, fullumcmd, rc, stdout, issued,
                 backups, mkdirs, writes, content, newtext, msg>>
  /\ UNCHANGED editVars

Next ==
  \/ BackupOper \/ BackupOperFails \/ NoBackup
  \/ SrcMissing \/ SrcExists
  \/ PathReady \/ Mkdir \/ MkdirFails
  \/ DfFails \/ Df
  \/ Assemble
  \/ UnmountSkip \/ UnmountCheckMode \/ UnmountRun \/ UnmountRaises
  \/ MountSkip \/ MountCheckMode \/ MountRun \/ MountRaises
  \/ PersistSkip \/ MemberMissing \/ BackupNameRaises \/ PersistEdit
  \/ Exit

Spec == Init /\ [][Next]_vars
\* ---------------------------------------------------------------------
\* The builder applied to comment lists
\* ---------------------------------------------------------------------
MaxComments == 2

Letters == <<"a","b","c","d","e","f","g","h","i","j">>

\* a comment of n characters whose spaces are at the 0-based positions in
\* spaces and whose other characters are letters
Text(n, spaces) ==
  [i \in 1..n |-> IF (i - 1) \in spaces THEN " " ELSE Letters[((i - 1) % 10) + 1]]

\* positions around the scan window range(59, 48, -1)
SpacePositions == {47, 48, 49, 50, 55, 59}

\* comments one character longer than the column budget
Texts61 == {Text(WrapColumn + 1, P) : P \in SUBSET SpacePositions}

\* a comment with no space that fills more than two lines
LongText == Text(2 * WrapColumn + 5, {})

CommentLines ==
  {<<"z","f","s"," ","f","o","r"," ","x"," ">>, Text(WrapColumn, {10}), Text(WrapColumn + 1, {50}), Text(WrapColumn + 1, {}), LongText}

\* tabcomment: None, or a list of comment lines
TabComments ==
  {<<t>> : t \in Texts61} \cup SegSeqs(CommentLines, MaxComments)

InitBuild ==
  /\ params \in {DefaultParams(src, state, NoPersistent, tc) :
                   src \in Names, state \in States, tc \in TabComments}
  /\ check_mode = FALSE
  /\ mounted = <<>>
  /\ mounted_at_start = <<>>
  /\ member = <<>>
  /\ member_at_start = <<>>
  /\ pc = "assemble"
  /\ changed = FALSE
  /\ currently_mounted = FALSE
  /\ parmtext = <<>>
  /\ fullcmd = <<>>
  /\ fullumcmd = <<>>
  /\ rc = 0
  /\ stdout = "df listing"
  /\ issued = <<>>
  /\ backups = 0
  /\ mkdirs = 0
  /\ writes = 0
  /\ content = <<>>
  /\ newtext = <<>>
  /\ msg = ""
  /\ res_args = NoResult
  /\ original = <<>>
  /\ adding = <<>>
  /\ removing = <<>>
  /\ ret = <<>>
  /\ ncalls = 0
  /\ input = <<>>
  /\ once = <<>>

NextBuild == Assemble

SpecBuild == InitBuild /\ [][NextBuild]_vars

\* ---------------------------------------------------------------------
\* The generated block inserted into a buffer and removed again
\* ---------------------------------------------------------------------

\* the text the builder generates for src
generated(src) == assemble_parmtext(DefaultParams(src, <<"m","o","u","n","t","e","d">>, NoPersistent, <<>>), T_new)

InitInsert ==
  /\ original \in Buffers
  /\ removing \in Names
  /\ adding = generated(removing)
  /\ ret = <<>>
  /\ ncalls = 0
  /\ input = original
  /\ once = original
  /\ RunIdle

\* swap_text(original, parmtext, src)
InsertBlock ==
  /\ ncalls = 0
  /\ \E r \in {swap_text(original, adding, removing)} :
         /\ original' = r.content_lines
         /\ ret' = r.ret
         /\ once' = r.content_lines
  /\ ncalls' = 1
  /\ UNCHANGED <<adding, removing, input>>
  /\ UNCHANGED runVars

\* swap_text(original, "", src) on the list the insertion left
RemoveBlock ==
  /\ ncalls = 1
  /\ adding' = <<>>
  /\ \E r \in {swap_text(original, <<>>, removing)} :
         /\ original' = r.content_lines
         /\ ret' = r.ret
  /\ ncalls' = 2
  /\ UNCHANGED <<removing, input, once>>
  /\ UNCHANGED runVars

NextInsert == InsertBlock \/ RemoveBlock

SpecInsert == InitInsert /\ [][NextInsert]_vars

\* ---------------------------------------------------------------------
\* Runs of the module one after the other on the same member
\* ---------------------------------------------------------------------
MaxRuns == 3

InitSerial ==
  /\ params \in {DefaultParams(src, state,
                   [given |-> TRUE, data_set_name |-> <<"s","y","s","1",".","p","(","m",")">>, backup |-> FALSE, backup_name |-> <<>>],
                   <<>>) : src \in RunSrcs, state \in {<<"m","o","u","n","t","e","d">>, <<"p","r","e","s","e","n","t">>}}
  /\ check_mode = FALSE
  /\ mounted \in MountTables
  /\ mounted_at_start = mounted
  /\ member = <<>>
  /\ member_at_start = member
  /\ pc = "start"
  /\ changed = FALSE
  /\ currently_mounted = FALSE
  /\ parmtext = <<>>
  /\ fullcmd = <<>>
  /\ fullumcmd = <<>>
  /\ rc = 0
  /\ stdout = ""
  /\ issued = <<>>
  /\ backups = 0
  /\ mkdirs = 0
  /\ writes = 0
  /\ content = <<>>
  /\ newtext = <<>>
  /\ msg = ""
  /\ res_args = NoResult
  /\ original = <<>>
  /\ adding = <<>>
  /\ removing = <<>>
  /\ ret = <<>>
  /\ ncalls = 0
  /\ input = <<>>
  /\ once = <<>>

\* the next caller enters run_module for its src once the run before it has
\* returned; the system keeps its mount table and the member
StartRun ==
  /\ pc = "done"
  /\ writes < MaxRuns
  /\ \E src \in RunSrcs : params' = [params EXCEPT !.src = src]
  /\ mounted_at_start' = mounted
  /\ member_at_start' = member
  /\ pc' = "start"
  /\ changed' = FALSE
  /\ currently_mounted' = FALSE
  /\ parmtext' = <<>>
  /\ fullcmd' = <<>>
  /\ fullumcmd' = <<>>
  /\ rc' = 0
  /\ stdout' = ""
  /\ content' = <<>>
  /\ newtext' = <<>>
  /\ msg' = ""
  /\ res_args' = NoResult
  /\ UNCHANGED <<check_mode, mounted, member, issued, backups, mkdirs, writes>>
  /\ UNCHANGED editVars

\* the steps of runs that complete their read-edit-write cycle
NextSerial ==
  \/ NoBackup \/ SrcExists \/ PathReady \/ Df \/ Assemble
  \/ UnmountSkip \/ MountSkip \/ MountRun
  \/ PersistEdit \/ Exit
  \/ StartRun

SpecSerial == InitSerial /\ [][NextSerial]_vars


\* ---------------------------------------------------------------------
\* Vocabulary of the properties
\* ---------------------------------------------------------------------

\* line is a mount directive naming the data set name, letter case aside:
\* optional blanks, MOUNT, blanks, FILESYSTEM('<name>')
directive_for(line, name) ==
  LET u == py_upper(line)
      a == re_skip_space(u, 1)
      b == a + 5
      c == re_skip_space(u, b)
      d == re_skip_space(u, c + 11)
      e == d + 1
      f == e + Len(name)
      g == re_skip_space(u, f + 1)
  IN  /\ py_startswith_at(u, a, <<"M","O","U","N","T">>)
      /\ c > b
      /\ py_startswith_at(u, c, <<"F","I","L","E","S","Y","S","T","E","M","(">>)
      /\ py_startswith_at(u, d, <<"'">>)
      /\ py_startswith_at(u, e, py_upper(name))
      /\ py_startswith_at(u, f, <<"'">>)
      /\ py_startswith_at(u, g, <<")">>)

\* indices (1-based) of the lines the scanner's pattern matches
matches_in(lines, name) == {i \in 1..Len(lines) : ms_match(name, lines[i])}

\* indices (1-based) of the lines that are directives for the name
directives_in(lines, name) == {i \in 1..Len(lines) : directive_for(lines[i], name)}

\* lines holds block as lines k+1 .. k+Len(block)
holds_at(lines, k, block) ==
  /\ k + Len(block) <= Len(lines)
  /\ SubSeq(lines, k + 1, k + Len(block)) = block

\* ---------------------------------------------------------------------
\* Properties of the editor
\* ---------------------------------------------------------------------

\* C1: applying swap_text twice with the same identifier and the same new
\* block text leaves the same buffer as applying it once.
C1_Idempotence == ncalls = 2 => original = once

\* C2: after swap_text with a non-empty generated block, scanning the
\* result finds exactly one mount directive for the identifier.
C2_SingleBlock ==
  (ncalls = 1 /\ Len(adding) > 0) => Cardinality(matches_in(original, removing)) = 1

\* C3: with two adjacent managed blocks A then B, removing A (empty new
\* text) deletes lines of A's block only: what precedes A, the whole of B
\* and what follows B stay in place and in order.
C3_AdjacencyPreserved ==
  \A a \in ManagedBlocks, b \in ManagedBlocks, k \in 0..Len(input) :
    ( /\ ncalls = 1
      /\ adding = <<>>
      /\ removing = a.src
      /\ py_upper(a.src) # py_upper(b.src)
      /\ holds_at(input, k, a.lines \o b.lines) )
    => LET rest == SubSeq(input, k + Len(a.lines) + 1, Len(input))
       IN  /\ Len(original) >= k + Len(rest)
           /\ SubSeq(original, 1, k) = SubSeq(input, 1, k)
           /\ SubSeq(original, Len(original) - Len(rest) + 1, Len(original)) = rest

\* C4: when the buffer holds no mount directive for the identifier and the
\* new block text is empty, swap_text returns the buffer's lines unchanged.
C4_NoOpWhenAbsent ==
  (ncalls = 1 /\ adding = <<>> /\ directives_in(input, removing) = {})
    => (original = input /\ ret = py_join(input))

\* C5: when the buffer holds exactly one well-formed managed block for the
\* identifier, swap_text with a fresh block returns the original lines
\* minus the old block's lines, followed by the new block's lines.
C5_ReplaceRoundTrip ==
  \A a \in ManagedBlocks, k \in 0..Len(input) :
    ( /\ ncalls = 1
      /\ Len(adding) > 0
      /\ py_upper(removing) = py_upper(a.src)
      /\ holds_at(input, k, a.lines)
      /\ Cardinality(directives_in(input, removing)) = 1 )
    => /\ original = SubSeq(input, 1, k)
                       \o SubSeq(input, k + Len(a.lines) + 1, Len(input))
                       \o py_split(adding)
       /\ Len(original) = Len(input) - Len(a.lines) + Len(py_split(adding))

\* C6: when the buffer holds several mount directives for the identifier,
\* swap_text removes every one of them; none survives in the output.
C6_StaleDuplicatesRemoved ==
  (ncalls = 1 /\ adding = <<>> /\ Cardinality(matches_in(input, removing)) >= 2)
    => matches_in(original, removing) = {}

\* C8: a line holding the mount directive for the resource is matched
\* whatever the letter case of the identifier and of the line.
C8_CaseInsensitiveMatch ==
  \A i \in 1..Len(input) :
    directive_for(input[i], removing) => ms_match(removing, input[i])

\* 0-based index of the first line the scanner's pattern matches
first_match(lines, name) ==
  CHOOSE i \in 0..(Len(lines) - 1) :
    /\ (i + 1) \in matches_in(lines, name)
    /\ \A j \in matches_in(lines, name) : i + 1 <= j

is_comment(line) == py_slice(line, 0, 2) = <<"/","*">>

is_end_comment(line) == py_slice(line, 0, 6) = <<"/","*"," ","E","N","D">>

\* C19: when the line right above the first matching directive is not a
\* comment line, or the directive is the first line, no recorded span
\* starts above the directive: the span of the directive starts at the
\* directive's own index and the line above it is kept.
C19_SpanStartsAtDirective ==
  (ncalls = 1 /\ matches_in(input, removing) # {}) =>
    LET i == first_match(input, removing)
    IN  (i = 0 \/ ~is_comment(input[i])) =>
          \A k \in 1..Len(recorded_spans(input, removing)) :
            recorded_spans(input, removing)[k][1] >= i

\* C20: no recorded span holds an END comment line above its directive:
\* an END comment line inside a span lies below a matching directive line
\* of that span.
C20_BackwardWalkStopsAtEnd ==
  ncalls = 1 =>
    \A k \in 1..Len(recorded_spans(input, removing)) :
      LET s == recorded_spans(input, removing)[k][1]
          e == recorded_spans(input, removing)[k][2]
      IN  \A j \in s..e :
            is_end_comment(input[j + 1]) =>
              \E d \in s..(j - 1) : ms_match(removing, input[d + 1])

\* ---------------------------------------------------------------------
\* Properties of a run of the module
\* ---------------------------------------------------------------------

\* the data set src is among the mounted file systems
in_use(src, table) == \E i \in 1..Len(table) : table[i] = py_upper(src)

\* a tso mount command is among the commands the run issued
mount_issued == \E i \in 1..Len(issued) : py_startswith_at(issued[i].cmd, 1, <<"t","s","o","c","m","d"," ","M","O","U","N","T"," ">>)

\* C7: the edited text is written back to the member only when the edited
\* lines differ from the lines that were read.
C7_WriteOnlyWhenChanged ==
  [][writes' > writes => content' # py_splitlines(uss_file_text(member))]_vars

\* C9: with state=unmounted or state=remounted the persistent data set is
\* never rewritten.
C9_UnmountedLeavesMember ==
  (params.state \in {<<"u","n","m","o","u","n","t","e","d">>, <<"r","e","m","o","u","n","t","e","d">>}) => writes = 0

\* C10: with state=mounted the run reports changed=True exactly when src was
\* not in use when the run began, and issues no mount command when it was.
C10_MountedChanged ==
  (pc = "done" /\ params.state = <<"m","o","u","n","t","e","d">>)
    => /\ res_args.changed = ~in_use(params.src, mounted_at_start)
       /\ in_use(params.src, mounted_at_start) => ~mount_issued

\* C11: a run with state=remounted that returns reports changed=True,
\* whether or not src was mounted when it began and whether or not check
\* mode is active.
C11_RemountedChanged ==
  (pc = "done" /\ params.state = <<"r","e","m","o","u","n","t","e","d">>) => res_args.changed = TRUE

\* a check-mode run with state=remounted has returned for a src that was
\* mounted when it began
C11_Witness ==
  /\ pc = "done"
  /\ params.state = <<"r","e","m","o","u","n","t","e","d">>
  /\ check_mode
  /\ in_use(params.src, mounted_at_start)

\* C12: a run with state=present and persistent/data_set_name given that
\* returns leaves a directive for src in the persistent data set and reports
\* changed=True.
C12_PresentPersists ==
  (pc = "done" /\ params.state = <<"p","r","e","s","e","n","t">> /\ params.persistent.given)
    => /\ directives_in(member, params.src) # {}
       /\ res_args.changed = TRUE

\* a tso unmount command is among the commands the run issued
unmount_issued == \E i \in 1..Len(issued) : py_startswith_at(issued[i].cmd, 1, <<"t","s","o","c","m","d"," ","U","N","M","O","U","N","T"," ">>)

\* the lines of the managed block a member may hold for src
block_of(src) == (CHOOSE m \in ManagedBlocks : m.src = src).lines

\* C13: a run with state=absent outside check mode that returns has issued
\* an unmount command if src was mounted, and, with
\* persistent/data_set_name given, leaves the member as it was without the
\* block of src and with no new block.
C13_AbsentRemoves ==
  (pc = "done" /\ params.state = <<"a","b","s","e","n","t">> /\ ~check_mode)
    => /\ in_use(params.src, mounted_at_start) => unmount_issued
       /\ params.persistent.given =>
            \E ss \in SegSeqs(MemberSegments, MaxMemberSegs) :
              /\ Flatten(ss) = member_at_start
              /\ member = Flatten(SelectSeq(ss, LAMBDA s : s # block_of(params.src)))

\* ---------------------------------------------------------------------
\* Properties of the builder
\* ---------------------------------------------------------------------

\* the block has been generated and is not empty
built == pc = "unmount" /\ Len(parmtext) > 0

\* no space of t lies at the 0-based positions a .. b
no_space(t, a, b) == \A i \in a..b : t[i + 1] # " "

\* the comment line the builder writes for text with number n
annotation(n, text) == <<"/","*"," ","C">> \o py_str(n) \o <<":">> \o text \o <<" ","*","/">>

\* C14: a comment of exactly 61 characters whose space at position 50 is
\* the one the backward scan meets (no space at positions 51 to 59) is cut
\* at that space, the continuation line starting with character 51; a
\* comment of 61 characters with no space inside the scanned positions 59
\* down to 49 is cut after its first 60 characters.
C14_WrapBoundary ==
  (built /\ Len(params.tabcomment) = 1) =>
    LET t == params.tabcomment[1]
        lines == py_splitlines(parmtext)
    IN  (Len(t) = 61 /\ ~py_isspace(t[1]) /\ ~py_isspace(t[61])) =>
          /\ (t[51] = " " /\ no_space(t, 51, 59)) =>
                /\ lines[2] = annotation(1, SubSeq(t, 1, 50))
                /\ lines[3] = annotation(2, SubSeq(t, 52, 61))
          /\ no_space(t, 49, 59) =>
                /\ lines[2] = annotation(1, SubSeq(t, 1, 60))
                /\ lines[3] = annotation(2, SubSeq(t, 61, 61))

\* the block was generated for a 61-character comment whose only space is
\* at position 50
C14_Witness ==
  /\ built
  /\ params.tabcomment = <<Text(61, {50})>>
  /\ py_splitlines(parmtext)[3] = annotation(2, SubSeq(Text(61, {50}), 52, 61))

\* the BEGIN and END marker lines for a time stamp
begin_marker(stamp) == <<"/","*"," ","B","E","G","I","N"," ","A","N","S","I","B","L","E"," ","M","A","N","A","G","E","D"," ","B","L","O","C","K"," ">> \o stamp \o <<" ","*","/">>
end_marker(stamp) == <<"/","*"," ","E","N","D"," ","A","N","S","I","B","L","E"," ","M","A","N","A","G","E","D"," ","B","L","O","C","K"," ">> \o stamp \o <<" ","*","/">>

\* line has the form /* C<n>:<text> */
is_annotation(line, n) ==
  LET head == <<"/","*"," ","C">> \o py_str(n) \o <<":">>
  IN  /\ py_startswith_at(line, 1, head)
      /\ Len(line) >= Len(head) + 3
      /\ SubSeq(line, Len(line) - 2, Len(line)) = <<" ","*","/">>

\* C15: a generated block that is not empty starts with the BEGIN marker
\* line for a time stamp, holds the directive line, holds after it the END
\* marker line for the same time stamp, and every line of the form
\* /* C<n>:<text> */ lies between the BEGIN line and the directive, the
\* n-th of them numbered n.
C15_BlockShape ==
  built =>
    LET lines == py_splitlines(parmtext)
        stamp == SubSeq(lines[1], 32, 46)
        dirs == {k \in 1..Len(lines) : lines[k] = Directive(params.src)}
    IN  /\ Len(lines[1]) = 49
        /\ lines[1] = begin_marker(stamp)
        /\ Cardinality(dirs) = 1
        /\ \A k \in dirs :
             /\ \E e \in (k + 1)..Len(lines) : lines[e] = end_marker(stamp)
             /\ \A j \in 2..(k - 1) : is_annotation(lines[j], j - 1)
             /\ \A j \in 1..Len(lines) :
                  py_startswith_at(lines[j], 1, <<"/","*"," ","C">>) => (1 < j /\ j < k)
        /\ \A j \in 1..Len(lines) :
             py_startswith_at(lines[j], 1, <<"/","*"," ","E","N","D">>) => lines[j] = end_marker(stamp)

\* a block was generated with three comment lines from a list of two
C15_Witness ==
  /\ built
  /\ Len(params.tabcomment) = 2
  /\ is_annotation(py_splitlines(parmtext)[4], 3)
  /\ py_splitlines(parmtext)[5] = Directive(params.src)

\* ---------------------------------------------------------------------
\* Properties of the builder and the editor together
\* ---------------------------------------------------------------------

\* C16: when the block generated for src has been appended to a buffer by
\* swap_text and swap_text is then applied for the same src with empty
\* text, every line of the block (BEGIN marker, directive, continuation
\* lines, END marker) is gone and every line the buffer held before the
\* block is still there: what is left is those lines and the empty line
\* that ended the generated text.
C16_BuilderScannerRoundTrip ==
  (ncalls = 2 /\ adding = <<>>) =>
    LET block == py_split(generated(removing))
        kept == SubSeq(once, 1, Len(once) - Len(block))
    IN  original = kept \o <<block[Len(block)]>>

\* ---------------------------------------------------------------------
\* Properties of the result of a run
\* ---------------------------------------------------------------------

\* C17: when a run that executed a mount command returns, the stdout of its
\* result is what that command wrote to stdout.
C17_StdoutReturned ==
  (pc = "done" /\ mount_issued) => res_args.stdout = "mount output"

\* ---------------------------------------------------------------------
\* Properties of runs one after the other
\* ---------------------------------------------------------------------

\* how many times lines holds the block the builder writes for src
block_count(lines, src) ==
  Cardinality({k \in 0..Len(lines) : holds_at(lines, k, py_splitlines(generated(src)))})

\* C18: when runs for distinct resources edit the same member one after
\* the other, every write leaves exactly one block of the resource written
\* and leaves the blocks of the other resources as they were; so the member
\* holds the block of each resource written so far, one of each.
C18_SerializedCallers ==
  [][writes' > writes =>
       /\ block_count(member', params.src) = 1
       /\ \A s \in RunSrcs \ {params.src} :
            block_count(member', s) = block_count(member, s)]_vars

\* ---------------------------------------------------------------------
\* Properties of the scan of the editor
\* ---------------------------------------------------------------------

\* the spans swap_text records for the buffer it was first handed
spans == recorded_spans(input, removing)

\* what the scan of the buffer leaves when the buffer ends
at_end == scan(input, removing, 0, None, None, <<>>)

\* C21: when every line above the first matching directive is a comment
\* line the backward walk passes (none below line 0 starts with /* BEG),
\* the walk ends at index 0 and a recorded span starts at index 0, so the
\* comment or BEGIN marker on the first line is removed with the block.
C21_WalkReachesStart ==
  (ncalls = 1 /\ matches_in(input, removing) # {}) =>
    LET i == first_match(input, removing)
    IN  (/\ i >= 1
         /\ \A j \in 0..(i - 1) : is_comment(input[j + 1])
         /\ \A j \in 1..(i - 1) : py_slice(input[j + 1], 0, 6) # <<"/","*"," ","B","E","G">>)
          => \E k \in 1..Len(spans) : spans[k][1] = 0

\* C22: when the buffer ends while a span is open, the span from the block
\* start to the last line of the buffer is recorded, also when the
\* directive is itself the last line.
C22_TrailingSpanRecorded ==
  (ncalls = 1 /\ at_end.remove_starting_at_index # None) =>
    \E k \in 1..Len(spans) :
      /\ spans[k][1] = at_end.remove_starting_at_index
      /\ spans[k][2] = Len(input) - 1

\* the first n lines without those whose 0-based index lies in a span of sp
RECURSIVE lines_outside(_, _, _)
lines_outside(lines, sp, n) ==
  IF n = 0 THEN <<>>
  ELSE LET rest == lines_outside(lines, sp, n - 1)
       IN  IF \E k \in 1..Len(sp) : sp[k][1] <= n - 1 /\ n - 1 <= sp[k][2]
           THEN rest
           ELSE Append(rest, lines[n])

\* C23: after the recorded spans are deleted, the lines removed are exactly
\* the lines whose index in the buffer lies in a recorded span, for any
\* number of spans, also spans that touch or overlap.
C23_DeletionIndexExact ==
  (ncalls = 1 /\ adding = <<>>) =>
    original = lines_outside(input, spans, Len(input))

\* C24: a line the scanner's pattern matches is a directive for the given
\* resource name, equal to it character for character apart from letter
\* case; a directive for another data set name is never matched.
C24_ExactNameMatched ==
  ncalls = 1 =>
    \A i \in 1..Len(input) :
      ms_match(removing, input[i]) => directive_for(input[i], removing)


\* ---------------------------------------------------------------------
\* Properties of the word wrap
\* ---------------------------------------------------------------------

\* the texts of the /* C<n>:<text> */ lines of a generated block, in order
annotation_texts(text) ==
  LET lines == py_splitlines(text)
      n == Cardinality({k \in 1..Len(lines) : py_startswith_at(lines[k], 1, <<"/","*"," ","C">>)})
  IN  [k \in 1..n |->
         SubSeq(lines[k + 1], Len(<<"/","*"," ","C">> \o py_str(k) \o <<":">>) + 1, Len(lines[k + 1]) - 3)]

\* the cut position the budget asks for: the highest position of a space
\* among the positions above 48 and below 60, or 60 when none holds a space
budget_cut(t) ==
  LET W == {i \in (WrapScanStop + 1)..(WrapColumn - 1) : t[i + 1] = " "}
  IN  IF W = {} THEN WrapColumn ELSE CHOOSE i \in W : \A j \in W : j <= i

\* the texts the budget asks for: each comment is added to the pending text,
\* one text is cut from it, and what is pending after the last comment is cut
\* until nothing is left
RECURSIVE budget_texts(_, _)
budget_texts(tc, pending) ==
  IF Len(tc) = 0 /\ Len(pending) = 0 THEN <<>>
  ELSE LET acc == IF Len(tc) = 0 THEN pending
                  ELSE (IF Len(pending) > 0 THEN pending \o <<" ">> ELSE <<>>) \o py_strip(tc[1])
           more == IF Len(tc) = 0 THEN <<>> ELSE Tail(tc)
       IN  IF Len(acc) > WrapColumn
           THEN <<SubSeq(acc, 1, budget_cut(acc))>>
                  \o budget_texts(more, py_strip(SubSeq(acc, budget_cut(acc) + 1, Len(acc))))
           ELSE <<acc>> \o budget_texts(more, <<>>)

\* C25: for every list of comment lines the text of each emitted
\* /* C<n>:<text> */ line has at most 60 characters, and whenever the
\* accumulated text has more than 60 characters the text cut from it ends
\* before the highest-indexed space among the positions scanned between
\* column 60 and column 48, or holds the first 60 characters when none of
\* those positions holds a space.
C25_ColumnBudget ==
  built =>
    LET texts == annotation_texts(parmtext)
    IN  /\ \A k \in 1..Len(texts) : Len(texts[k]) <= WrapColumn
        /\ texts = budget_texts(params.tabcomment, <<>>)

\* a block was generated for a 61-character comment with spaces at the
\* positions 50 and 55: the first text ends before position 55
C25_Witness ==
  /\ built
  /\ params.tabcomment = <<Text(61, {50, 55})>>
  /\ annotation_texts(parmtext) = <<SubSeq(Text(61, {50, 55}), 1, 55), SubSeq(Text(61, {50, 55}), 57, 61)>>

\* the characters of s that are not white space
non_space(s) == SelectSeq(s, LAMBDA c : ~py_isspace(c))

\* C26: for every list of comment lines the wrap loops come to an end with
\* the pending text empty, and the characters of the comments that are not
\* white space are the characters of the emitted texts that are not white
\* space, in the same order; this holds for a comment with no space at all.
C26_WrapCompletes ==
  built =>
    /\ wrap_while(wrap_for(params.tabcomment, [parmtext |-> <<>>, extra |-> <<>>, ctr |-> 1])).extra = <<>>
    /\ non_space(Flatten(annotation_texts(parmtext))) = non_space(Flatten(params.tabcomment))

\* a block was generated for a comment of 125 characters with no space: it
\* is written as three texts of 60, 60 and 5 characters
C26_Witness ==
  /\ built
  /\ params.tabcomment = <<LongText>>
  /\ Len(annotation_texts(parmtext)) = 3
  /\ annotation_texts(parmtext)[3] = SubSeq(LongText, 121, 125)


\* ---------------------------------------------------------------------
\* Frame of the editor
\* ---------------------------------------------------------------------

\* line is a statement of its own that is no part of a block for name: it
\* is not empty, starts in the first column, is no comment and is no mount
\* directive for name
foreign_statement(line, name) ==
  /\ Len(line) > 0
  /\ ~py_isspace(line[1])
  /\ ~is_comment(line)
  /\ ~directive_for(line, name)

\* a is b with some lines left out
RECURSIVE is_subseq(_, _)
is_subseq(a, b) ==
  IF Len(a) = 0 THEN TRUE
  ELSE IF Len(b) = 0 THEN FALSE
  ELSE IF a[1] = b[1] THEN is_subseq(Tail(a), Tail(b))
  ELSE is_subseq(a, Tail(b))

\* C27: swap_text with empty text keeps every line of the buffer that is a
\* statement of its own and no directive for the identifier (a statement
\* above a directive, the statement that ends a block's forward scan, a
\* directive of another resource), and keeps these lines in their order.
C27_EditorFrame ==
  (ncalls = 1 /\ adding = <<>>) =>
    is_subseq(SelectSeq(input, LAMBDA l : foreign_statement(l, removing)), original)


\* ---------------------------------------------------------------------
\* Properties of a run: check mode and failures
\* ---------------------------------------------------------------------

\* C28: in a run in check mode no mount or unmount command is executed, no
\* mount-point directory is created, no backup is created and the
\* persistent data set is not rewritten, whatever the state asked for and
\* whatever is mounted at the start.
C28_CheckModeNoEffects ==
  check_mode =>
    /\ issued = <<>>
    /\ mkdirs = 0
    /\ backups = 0
    /\ writes = 0
    /\ member = member_at_start

\* the run has ended in one of the two validation failures
validation_failed ==
  /\ pc = "failed"
  /\ msg \in {"Mount source doesn't exist", "persistent ds set member doesn't exist"}

\* C29: a run that ends in failure because the mount source does not exist
\* or because the persistent data set member does not exist has executed no
\* mount or unmount command and has not modified the persistent member.
C29_ValidationBeforeEffects ==
  validation_failed =>
    /\ issued = <<>>
    /\ writes = 0
    /\ member = member_at_start

\* C30: when a mount or unmount command the run executed returned a return
\* code other than zero, the run does not return a result with rc = 0: it
\* fails or the result carries a non-zero rc.
C30_CommandFailureReported ==
  (pc = "done" /\ \E i \in 1..Len(issued) : issued[i].rc # 0) => res_args.rc # 0

=============================================================================
